---- MODULE Spec2Model ----
(***************************************************************************)
(* A state-machine model of the interactive editing engine of             *)
(* PyChanEditor (src/editor/application.py, class EditorApplication):     *)
(* hit testing, selection, the four resize markers, marker and body       *)
(* drags, widget insertion, file open, property edits.                    *)
(*                                                                         *)
(* The widget toolkit (pychan / fifechan) is not part of the repository.  *)
(* Widgets are modelled as heap records with the fields the editor reads  *)
(* and writes (parent, children, content, x, y, width, height, and the    *)
(* attributes the property panel shows); the                               *)
(* toolkit calls the editor makes (addChild, removeChild,                 *)
(* removeAllChildren, getAbsolutePos, Rect.contains) are modelled at the  *)
(* place the editor calls them.                                           *)
(***************************************************************************)
EXTENDS Integers, Sequences, FiniteSets, TLC

(***************************************************************************)
(* Program constants                                                       *)
(***************************************************************************)
MENU_HEIGHT == 30
TOOLBAR_HEIGHT == 60
\* size=(10, 10) of every marker icon
MarkerSize == 10
\* x_pos -= 5 ; y_pos -= 5 in position_markers
MarkerOffset == 5
\* width = 50 ; height = 50 in tool_clicked
DefaultSize == 50
\* event.getButton() == 1 in cb_on_marker_pressed / cb_on_marker_released
LEFT == 1

(***************************************************************************)
(* Bounds of the model                                                     *)
(***************************************************************************)
\* number of input events / commands explored in one run (a release of the
\* mouse button is not counted)
MaxEvents == 4
\* number of widget objects ever allocated (loaded or inserted)
MaxNodes == 7
\* extent of the edit window (set by the host layout, not by the editor)
EditWidth == 200
EditHeight == 200
\* number of property edits (key presses, commits, check box clicks)
\* explored in one run
MaxEdits == 1

(***************************************************************************)
(* Widget references.  None is 0, widgets of the heap are 1..Len(tree),   *)
(* the edit window and the four markers are negative.                      *)
(***************************************************************************)
NONE == 0
EDIT_WINDOW == -1
Handles == <<"TL", "TR", "BR", "BL">>
MarkerRef(i) == -1 - i
IsMarkerRef(w) == w \in {MarkerRef(i) : i \in 1..4}
MarkerIx(w) == -1 - w
HandleIx(h) == CHOOSE i \in 1..4 : Handles[i] = h
IsNode(w) == w > 0

\* the buttons a mouse event can carry: fife.MouseEvent.LEFT, RIGHT
Buttons == {1, 2}

VARIABLES
    tree,              \* heap of widget objects: Seq of records
    edit_children,     \* self._edit_window.children without the markers
    markers,           \* self._markers: <<>> or the 4 marker positions TL,TR,BR,BL
    markers_attached,  \* the markers of self._markers are children of the edit window
    selected_widget,   \* self._selected_widget
    marker_dragged,    \* self._marker_dragged
    widget_dragged,    \* self._widget_dragged
    old_x, old_y,      \* self._old_x, self._old_y
    widgets,           \* self._widgets (the widget of each WidgetItem)
    combo_selected,    \* self._widget_combo.selected
    combo_items,       \* self._widget_combo.items
    property_window,   \* rows of self._property_window
    filename,          \* self._filename
    errors,            \* messages shown through self.error_dialog
    raised,            \* the exception that left a handler uncaught, or "none"
    steps,             \* what the handler that ran last did for a selection
                       \* change, in the order it did it
    mouse,             \* where the held button was pressed, and which button
    pending,           \* the event still to be delivered to the edit window
    events,            \* number of physical events / commands so far
    edits,             \* number of property edits so far
    last               \* the handler that ran last, its arguments and outcome

appvars == <<tree, edit_children, markers, markers_attached, selected_widget,
             marker_dragged, widget_dragged, old_x, old_y, widgets,
             combo_selected, combo_items, property_window, filename, errors,
             raised, steps>>
vars == <<appvars, mouse, pending, events, edits, last>>

\* the editor's state as one record, so that methods compose
St == [tree |-> tree, edit_children |-> edit_children, markers |-> markers,
       markers_attached |-> markers_attached,
       selected_widget |-> selected_widget, marker_dragged |-> marker_dragged,
       widget_dragged |-> widget_dragged, old_x |-> old_x, old_y |-> old_y,
       widgets |-> widgets, combo_selected |-> combo_selected,
       combo_items |-> combo_items, property_window |-> property_window,
       filename |-> filename, errors |-> errors, raised |-> raised,
       \* every handler starts with an empty record of its steps
       steps |-> <<>>,
       \* not state: set when a method removes the marker objects
       markers_removed |-> FALSE]

Commit(s) ==
    /\ tree' = s.tree
    /\ edit_children' = s.edit_children
    /\ markers' = s.markers
    /\ markers_attached' = s.markers_attached
    /\ selected_widget' = s.selected_widget
    /\ marker_dragged' = s.marker_dragged
    /\ widget_dragged' = s.widget_dragged
    /\ old_x' = s.old_x
    /\ old_y' = s.old_y
    /\ widgets' = s.widgets
    /\ combo_selected' = s.combo_selected
    /\ combo_items' = s.combo_items
    /\ property_window' = s.property_window
    /\ filename' = s.filename
    /\ errors' = s.errors
    /\ raised' = s.raised
    /\ steps' = s.steps

\* an exception leaves the method; nothing after the raise is executed
Raise(s, e) == [s EXCEPT !.raised = e]
Ok(s) == s.raised = "none"

(***************************************************************************)
(* Texts and the attribute parsers                                         *)
(***************************************************************************)
\* A text (a Python unicode or str value) is the sequence of its
\* characters, each a string of length one.
DigitChars == <<"0", "1", "2", "3", "4", "5", "6", "7", "8", "9">>
IsDigit(c) == \E d \in 1..10 : DigitChars[d] = c
DigitVal(c) == (CHOOSE d \in 1..10 : DigitChars[d] = c) - 1

\* ten to the power n
RECURSIVE TenTo(_)
TenTo(n) == IF n <= 0 THEN 1 ELSE 10 * TenTo(n - 1)

\* the decimal digits of n >= 0, without leading zeros
RECURSIVE DigitsOf(_)
DigitsOf(n) ==
    IF n < 10 THEN <<DigitChars[n + 1]>>
    ELSE Append(DigitsOf(n \div 10), DigitChars[(n % 10) + 1])

\* u"%i" % n and unicode(n) for an int n
IntText(n) == IF n < 0 THEN <<"-">> \o DigitsOf(0 - n) ELSE DigitsOf(n)

\* the number written by a sequence of digits
RECURSIVE DigitsValue(_)
DigitsValue(t) ==
    IF t = <<>> THEN 0
    ELSE 10 * DigitsValue(SubSeq(t, 1, Len(t) - 1)) + DigitVal(t[Len(t)])

AllDigits(t) == \A i \in 1..Len(t) : IsDigit(t[i])

\* The texts are over the printable ASCII characters and the ASCII control
\* characters named here (written as the characters themselves where TLA+
\* has no escape for them).
VerticalTab == ""       \* 0x0B
FileSeparator == ""     \* 0x1C
GroupSeparator == ""    \* 0x1D
RecordSeparator == ""   \* 0x1E
UnitSeparator == ""     \* 0x1F

\* white space of a byte string (str.strip, int and float of a str)
IsSpace(c) == c \in {" ", "\t", "\n", "\r", "\f", VerticalTab}
\* white space of a unicode string: also the four separators
IsUnicodeSpace(c) ==
    \/ IsSpace(c)
    \/ c \in {FileSeparator, GroupSeparator, RecordSeparator, UnitSeparator}
\* int(u) and float(u) of a unicode string first turn every unicode white
\* space into a blank, then parse the byte string
EncodeDecimal(t) ==
    [i \in 1..Len(t) |-> IF IsUnicodeSpace(t[i]) THEN " " ELSE t[i]]

\* str.strip(): whitespace is dropped at both ends
RECURSIVE LStrip(_)
LStrip(t) ==
    IF t # <<>> /\ IsSpace(t[1]) THEN LStrip(Tail(t)) ELSE t
RECURSIVE RStrip(_)
RStrip(t) ==
    IF t # <<>> /\ IsSpace(t[Len(t)]) THEN RStrip(SubSeq(t, 1, Len(t) - 1))
    ELSE t
Strip(t) == RStrip(LStrip(t))

\* str.split(sep): the pieces between the separators, empty pieces kept
RECURSIVE Split(_, _)
Split(t, sep) ==
    IF \A i \in 1..Len(t) : t[i] # sep THEN <<t>>
    ELSE LET i == CHOOSE j \in 1..Len(t) :
                      t[j] = sep /\ \A q \in 1..(j - 1) : t[q] # sep
         IN <<SubSeq(t, 1, i - 1)>> \o Split(SubSeq(t, i + 1, Len(t)), sep)

\* an optional sign in front of the rest of a text
HasSign(t) == t # <<>> /\ t[1] \in {"+", "-"}
Unsigned(t) == IF HasSign(t) THEN Tail(t) ELSE t
IsNegative(t) == t # <<>> /\ t[1] = "-"

\* int(text) of a byte string: white space, an optional sign, white space,
\* one or more digits, white space; ok is FALSE where int raises ValueError
ParseInt(text) ==
    LET t == Strip(text)
        digits == LStrip(Unsigned(t))
        ok == digits # <<>> /\ AllDigits(digits)
    IN [ok |-> ok,
        value |-> IF ~ok THEN 0
                  ELSE IF IsNegative(t) THEN 0 - DigitsValue(digits)
                  ELSE DigitsValue(digits)]

\* map(int, str(value).split(',')): ok when every piece is an int
ParseInts(text) ==
    LET pieces == Split(text, ",")
    IN [ok |-> \A i \in 1..Len(pieces) : ParseInt(pieces[i]).ok,
        value |-> [i \in 1..Len(pieces) |-> ParseInt(pieces[i]).value]]

\* A float is kept as a decimal number m / 10^k with a sign, or as inf or
\* nan; m has no trailing zero when k > 0.  The decimal is what Python
\* prints for the float as long as it has at most 12 significant digits.
RECURSIVE Normal(_, _)
Normal(m, k) ==
    IF m = 0 THEN <<0, 0>>
    ELSE IF k > 0 /\ m % 10 = 0 THEN Normal(m \div 10, k - 1)
    ELSE <<m, k>>

Float(neg, m, k) ==
    [cls |-> "num", neg |-> neg, m |-> Normal(m, k)[1], k |-> Normal(m, k)[2]]
Infinity(neg) == [cls |-> "inf", neg |-> neg, m |-> 0, k |-> 0]
NotANumber == [cls |-> "nan", neg |-> FALSE, m |-> 0, k |-> 0]

\* str.lower() on the letters the float parser looks at
LowerChar(c) ==
    CASE c = "I" -> "i" [] c = "N" -> "n" [] c = "F" -> "f" [] c = "A" -> "a"
      [] c = "T" -> "t" [] c = "Y" -> "y" [] c = "E" -> "e" [] OTHER -> c
Lower(t) == [i \in 1..Len(t) |-> LowerChar(t[i])]

\* float(text): white space around an optional sign and either inf,
\* infinity, nan, or digits with an optional point and an optional
\* exponent; ok is FALSE where float raises ValueError
ParseFloat(text) ==
    LET t == Lower(Strip(text))
        neg == IsNegative(t)
        body == Unsigned(t)
        halves == Split(body, "e")
        mant == Split(halves[1], ".")
        whole == mant[1]
        frac == IF Len(mant) = 2 THEN mant[2] ELSE <<>>
        expo == IF Len(halves) = 2 THEN halves[2] ELSE <<"0">>
        expOk == /\ Unsigned(expo) # <<>> /\ AllDigits(Unsigned(expo))
        e == IF ~expOk THEN 0
             ELSE IF IsNegative(expo) THEN 0 - DigitsValue(Unsigned(expo))
             ELSE DigitsValue(Unsigned(expo))
        numOk == /\ Len(halves) <= 2 /\ Len(mant) <= 2
                 /\ AllDigits(whole) /\ AllDigits(frac)
                 /\ Len(whole) + Len(frac) > 0
                 /\ expOk
        m == DigitsValue(whole \o frac)
        k == Len(frac) - e
    IN IF body \in {<<"i", "n", "f">>,
                    <<"i", "n", "f", "i", "n", "i", "t", "y">>}
       THEN [ok |-> TRUE, value |-> Infinity(neg)]
       ELSE IF body = <<"n", "a", "n">>
       THEN [ok |-> TRUE, value |-> NotANumber]
       ELSE IF ~numOk THEN [ok |-> FALSE, value |-> NotANumber]
       ELSE [ok |-> TRUE,
             value |-> IF k >= 0 THEN Float(neg, m, k)
                       ELSE Float(neg, m * TenTo(0 - k), 0)]

\* the digits of n, with zeros in front up to the length k
RECURSIVE Padded(_, _)
Padded(n, k) ==
    IF k <= 0 THEN <<>>
    ELSE Append(Padded(n \div 10, k - 1), DigitChars[(n % 10) + 1])

\* unicode(value) for a float: a point and at least one digit after it
\* (the form Python prints for 0.0001 <= |value| < 10^12)
FloatText(v) ==
    LET sign == IF v.neg THEN <<"-">> ELSE <<>>
    IN CASE v.cls = "nan" -> <<"n", "a", "n">>
         [] v.cls = "inf" -> sign \o <<"i", "n", "f">>
         [] OTHER ->
              sign \o DigitsOf(v.m \div TenTo(v.k)) \o <<".">>
                   \o (IF v.k = 0 THEN <<"0">>
                       ELSE Padded(v.m % TenTo(v.k), v.k))

(***************************************************************************)
(* The widget heap and the toolkit queries the editor uses                 *)
(***************************************************************************)
\* a new widget object with the toolkit's defaults for the attributes the
\* property panel shows (is_focusable True is kept as 1; scale_start is
\* read for sliders only)
NewWidget(kind, x, y, w, h) ==
    [kind |-> kind, parent |-> NONE, children |-> <<>>, content |-> NONE,
     x |-> x, y |-> y, width |-> w, height |-> h,
     name |-> <<"_", "_", "u", "n", "n", "a", "m", "e", "d", "_", "_">>,
     base_color |-> <<28, 28, 28, 255>>, border_size |-> 0,
     is_focusable |-> 1, scale_start |-> Float(FALSE, 0, 0)]

\* addChild does not raise RuntimeError: containers take children, a
\* scroll area takes its content
AcceptsChild(kind) == kind \in {"Container", "ScrollArea"}

\* hasattr(widget, "children"): containers keep a child list
HasChildren(s, w) ==
    \/ w = EDIT_WINDOW
    \/ IsNode(w) /\ s.tree[w].kind = "Container"

\* hasattr(widget, "content"): a scroll area has one content slot
HasContent(s, w) == IsNode(w) /\ s.tree[w].kind = "ScrollArea"

\* widget.children, in child order; the markers are the last children of the
\* edit window, added in the order TL, TR, BR, BL by recreate_markers
Children(s, w) ==
    IF w = EDIT_WINDOW
    THEN s.edit_children \o
         (IF s.markers_attached
          THEN [i \in 1..Len(s.markers) |-> MarkerRef(i)] ELSE <<>>)
    ELSE s.tree[w].children

Parent(s, w) ==
    IF w = EDIT_WINDOW THEN NONE
    ELSE IF IsMarkerRef(w)
         THEN (IF s.markers_attached THEN EDIT_WINDOW ELSE NONE)
         ELSE s.tree[w].parent

\* the position of a widget relative to its parent; the edit window sits
\* below the menu and the toolbar
LocalX(s, w) ==
    IF w = EDIT_WINDOW THEN 0
    ELSE IF IsMarkerRef(w) THEN s.markers[MarkerIx(w)].x
         ELSE s.tree[w].x

LocalY(s, w) ==
    IF w = EDIT_WINDOW THEN MENU_HEIGHT + TOOLBAR_HEIGHT
    ELSE IF IsMarkerRef(w) THEN s.markers[MarkerIx(w)].y
         ELSE s.tree[w].y

WidthOf(s, w) ==
    IF w = EDIT_WINDOW THEN EditWidth
    ELSE IF IsMarkerRef(w) THEN MarkerSize ELSE s.tree[w].width

HeightOf(s, w) ==
    IF w = EDIT_WINDOW THEN EditHeight
    ELSE IF IsMarkerRef(w) THEN MarkerSize ELSE s.tree[w].height

\* getAbsolutePos / getAbsolutePosition: the sum of the local positions of
\* the widget and of its ancestors, over the live parent chain
RECURSIVE AbsX(_, _)
AbsX(s, w) ==
    LocalX(s, w) + (IF Parent(s, w) = NONE THEN 0 ELSE AbsX(s, Parent(s, w)))

RECURSIVE AbsY(_, _)
AbsY(s, w) ==
    LocalY(s, w) + (IF Parent(s, w) = NONE THEN 0 ELSE AbsY(s, Parent(s, w)))

\* fife.Rect(x, y, w, h).contains(fife.Point(px, py)): both edges count
RectContains(x, y, w, h, px, py) ==
    /\ px >= x /\ px <= x + w
    /\ py >= y /\ py <= y + h

\* the widget's absolute rectangle holds the point (x_pos, y_pos) of the
\* edit surface
InBounds(s, w, x_pos, y_pos) ==
    RectContains(AbsX(s, w), AbsY(s, w), WidthOf(s, w), HeightOf(s, w),
                 x_pos, y_pos + MENU_HEIGHT + TOOLBAR_HEIGHT)

(***************************************************************************)
(* get_widget_in: the hit test                                             *)
(***************************************************************************)
RECURSIVE get_widget_in(_, _, _, _)
RECURSIVE first_found(_, _, _, _, _)
RECURSIVE first_found_last(_, _, _, _, _)

\* a child loop that returns the first child without testing its bounds
first_found_unchecked(s, kids, i, x_pos, y_pos) ==
    IF i > Len(kids) THEN NONE ELSE kids[i]

\* a child loop that keeps the last child that resolves instead of the first
first_found_last(s, kids, i, x_pos, y_pos) ==
    IF i > Len(kids) THEN NONE
    ELSE LET later == first_found_last(s, kids, i + 1, x_pos, y_pos) IN
         IF later # NONE THEN later
         ELSE get_widget_in(s, kids[i], x_pos, y_pos)

\* for child in widget.children: found = get_widget_in(child); if found: return
first_found(s, kids, i, x_pos, y_pos) ==
    IF i > Len(kids) THEN NONE
    ELSE LET found == get_widget_in(s, kids[i], x_pos, y_pos) IN
         IF found # NONE THEN found
         ELSE first_found(s, kids, i + 1, x_pos, y_pos)

get_widget_in(s, widget, x_pos, y_pos) ==
    IF InBounds(s, widget, x_pos, y_pos)
    THEN IF HasChildren(s, widget)
         THEN LET found == first_found(s, Children(s, widget), 1, x_pos, y_pos)
              IN IF found # NONE THEN found ELSE widget
         ELSE IF HasContent(s, widget) /\ s.tree[widget].content # NONE
              THEN LET found == get_widget_in(s, s.tree[widget].content,
                                              x_pos, y_pos)
                   IN IF found # NONE THEN found ELSE widget
              ELSE widget
    ELSE NONE

\* get_pos_in_scrollarea: the absolute position less the chrome above the
\* edit surface
get_pos_in_scrollarea(s, w) ==
    [x |-> AbsX(s, w), y |-> AbsY(s, w) - (TOOLBAR_HEIGHT + MENU_HEIGHT)]


(***************************************************************************)
(* The property panel                                                      *)
(***************************************************************************)
\* widget.ATTRIBUTES: the attribute descriptors of a widget kind, in
\* declared order; the type is the descriptor's class (Attr, PointAttr,
\* ColorAttr, IntAttr, BoolAttr, FloatAttr)
ATTRIBUTES(kind) ==
    << [name |-> "name", type |-> "Attr"],
       [name |-> "position", type |-> "PointAttr"],
       [name |-> "size", type |-> "PointAttr"],
       [name |-> "base_color", type |-> "ColorAttr"],
       [name |-> "border_size", type |-> "IntAttr"],
       [name |-> "is_focusable", type |-> "BoolAttr"] >>
    \o (IF kind = "Slider"
        THEN << [name |-> "scale_start", type |-> "FloatAttr"] >>
        ELSE <<>>)

\* u"%i, %i" % (value): the text of a point editor
FormatPoint(a, b) == IntText(a) \o <<",", " ">> \o IntText(b)

\* u"%i, %i, %i, %i" % (value.r, value.g, value.b, value.a)
FormatColor(c) ==
    IntText(c[1]) \o <<",", " ">> \o IntText(c[2]) \o <<",", " ">>
        \o IntText(c[3]) \o <<",", " ">> \o IntText(c[4])

\* a text no parser but Attr's accepts
Malformed == <<"a", "b", "c">>

\* getattr(selected, attr.name)
GetAttr(s, w, name) ==
    CASE name = "name" -> s.tree[w].name
      [] name = "position" -> <<s.tree[w].x, s.tree[w].y>>
      [] name = "size" -> <<s.tree[w].width, s.tree[w].height>>
      [] name = "base_color" -> s.tree[w].base_color
      [] name = "border_size" -> s.tree[w].border_size
      [] name = "is_focusable" -> s.tree[w].is_focusable
      [] name = "scale_start" -> s.tree[w].scale_start

\* the row built for one attribute: the attribute's name and type, the
\* text of its text field or the mark of its check box (the one not in use
\* is empty / FALSE), and ("of") the widget the value was read from
PropertyItem(attr, value, w) ==
    LET text == CASE attr.type = "PointAttr" -> FormatPoint(value[1], value[2])
                  [] attr.type = "ColorAttr" -> FormatColor(value)
                  [] attr.type = "IntAttr" -> IntText(value)
                  [] attr.type = "FloatAttr" -> FloatText(value)
                  [] attr.type = "BoolAttr" -> <<>>
                  [] OTHER -> value
    IN [name |-> attr.name, type |-> attr.type, text |-> text,
        marked |-> IF attr.type = "BoolAttr" THEN value # 0 ELSE FALSE,
        of |-> w]

\* update_property_window: remove all rows, then one row per attribute of
\* the selected widget
update_property_window(s) ==
    IF ~Ok(s) THEN s
    ELSE IF s.selected_widget = NONE
         THEN [s EXCEPT !.property_window = <<>>,
                        !.steps = Append(@, "panel")]
         ELSE LET attrs == ATTRIBUTES(s.tree[s.selected_widget].kind) IN
              [s EXCEPT !.steps = Append(@, "panel"), !.property_window =
                  [i \in 1..Len(attrs) |->
                      PropertyItem(attrs[i],
                                   GetAttr(s, s.selected_widget, attrs[i].name),
                                   s.selected_widget)]]

(***************************************************************************)
(* The markers                                                             *)
(***************************************************************************)
\* position_markers that places TL relative to where it is now
position_markers_shifting(s) ==
    IF ~Ok(s) THEN s
    ELSE IF s.selected_widget = NONE THEN s
    ELSE IF s.markers = <<>> THEN Raise(s, "KeyError")
    ELSE LET x0 == s.markers[1].x - MarkerOffset
             y0 == s.markers[1].y - MarkerOffset
             x1 == x0 + s.tree[s.selected_widget].width
             y1 == y0 + s.tree[s.selected_widget].height
         IN [s EXCEPT !.markers = << [x |-> x0, y |-> y0], [x |-> x1, y |-> y0],
                                     [x |-> x1, y |-> y1], [x |-> x0, y |-> y1] >>]

\* position_markers: TL, TR, BR, BL around the selected widget
position_markers(s) ==
    IF ~Ok(s) THEN s
    ELSE IF s.selected_widget = NONE THEN s
    ELSE IF s.markers = <<>> THEN Raise(s, "KeyError")
    ELSE LET pos == get_pos_in_scrollarea(s, s.selected_widget)
             x0 == pos.x - MarkerOffset
             y0 == pos.y - MarkerOffset
             x1 == x0 + s.tree[s.selected_widget].width
             y1 == y0 + s.tree[s.selected_widget].height
         IN [s EXCEPT !.markers = << [x |-> x0, y |-> y0], [x |-> x1, y |-> y0],
                                     [x |-> x1, y |-> y1], [x |-> x0, y |-> y1] >>]

\* update_editor
update_editor(s) == update_property_window(position_markers(s))

\* clear_markers: removeChild raises RuntimeError for a widget that is not
\* a child of the edit window
clear_markers(s) ==
    IF ~Ok(s) THEN s
    ELSE IF s.markers # <<>> /\ ~s.markers_attached
         THEN Raise(s, "RuntimeError")
         ELSE [s EXCEPT !.markers = <<>>, !.markers_attached = FALSE,
                        !.markers_removed = TRUE]

\* recreate_markers that places the markers but does not rebuild the
\* property window
recreate_markers_keep_panel(s) ==
    LET c == clear_markers(s) IN
    IF ~Ok(c) THEN c
    ELSE IF c.selected_widget # NONE
         THEN position_markers([c EXCEPT
                  !.markers = [i \in 1..4 |-> [x |-> 0, y |-> 0]],
                  !.markers_attached = TRUE])
         ELSE c

\* recreate_markers: four new icons, children of the edit window
recreate_markers(s) ==
    LET c == clear_markers(s) IN
    IF ~Ok(c) THEN c
    ELSE IF c.selected_widget # NONE
         THEN update_editor([c EXCEPT
                  !.markers = [i \in 1..4 |-> [x |-> 0, y |-> 0]],
                  !.markers_attached = TRUE,
                  !.steps = Append(@, "handles")])
         ELSE update_editor([c EXCEPT !.steps = Append(@, "handles")])

(***************************************************************************)
(* Selection                                                               *)
(***************************************************************************)
InList(list, w) == \E i \in 1..Len(list) : list[i] = w
\* list.index(w), counted from 0
IndexOf(list, w) ==
    (CHOOSE i \in 1..Len(list) :
        list[i] = w /\ \A j \in 1..(i - 1) : list[j] # w) - 1

\* widget in self._markers.values()
IsCurrentMarker(s, w) == \E i \in 1..Len(s.markers) : w = MarkerRef(i)

\* select_widget without the test for markers
select_widget_any(s, widget) ==
    IF ~Ok(s) THEN s
    ELSE IF widget = NONE
         THEN recreate_markers([s EXCEPT !.selected_widget = NONE,
                                         !.combo_selected = -1])
         ELSE LET s1 == [s EXCEPT !.selected_widget = widget] IN
              IF ~InList(s.widgets, widget) THEN Raise(s1, "ValueError")
              ELSE recreate_markers(
                       [s1 EXCEPT !.combo_selected = IndexOf(s.widgets, widget)])

\* select_widget that sets the index of the drop-down after it has rebuilt
\* the markers and the property window
select_widget_index_last(s, widget) ==
    IF ~Ok(s) THEN s
    ELSE IF IsCurrentMarker(s, widget) THEN s
    ELSE IF widget = NONE
         THEN LET r == recreate_markers([s EXCEPT !.selected_widget = NONE]) IN
              IF ~Ok(r) THEN r
              ELSE [r EXCEPT !.combo_selected = -1,
                             !.steps = Append(@, "index")]
         ELSE LET r == recreate_markers([s EXCEPT !.selected_widget = widget]) IN
              IF ~Ok(r) THEN r
              ELSE IF ~InList(s.widgets, widget) THEN Raise(r, "ValueError")
              ELSE [r EXCEPT !.combo_selected = IndexOf(s.widgets, widget),
                             !.steps = Append(@, "index")]

select_widget(s, widget) ==
    IF ~Ok(s) THEN s
    ELSE IF IsCurrentMarker(s, widget) THEN s
    ELSE IF widget = NONE
         THEN recreate_markers([s EXCEPT !.selected_widget = NONE,
                                         !.combo_selected = -1,
                                         !.steps = Append(@, "index")])
         ELSE LET s1 == [s EXCEPT !.selected_widget = widget] IN
              IF ~InList(s.widgets, widget) THEN Raise(s1, "ValueError")
              ELSE recreate_markers(
                       [s1 EXCEPT !.combo_selected = IndexOf(s.widgets, widget),
                                  !.steps = Append(@, "index")])


(***************************************************************************)
(* Mouse handlers                                                          *)
(***************************************************************************)
\* cb_on_widget_selected without the test of the marker flag
cb_on_widget_selected_unflagged(s, ex, ey) ==
    LET s1 == [s EXCEPT !.widget_dragged = FALSE, !.old_x = ex, !.old_y = ey]
        found == get_widget_in(s1, EDIT_WINDOW, ex, ey)
        clicked == IF found = EDIT_WINDOW THEN NONE ELSE found
    IN select_widget(s1, clicked)

\* cb_on_widget_selected: a press delivered to the edit window at (ex, ey)
cb_on_widget_selected(s, ex, ey) ==
    LET s1 == [s EXCEPT !.widget_dragged = FALSE, !.old_x = ex, !.old_y = ey] IN
    IF s1.marker_dragged THEN s1
    ELSE LET found == get_widget_in(s1, EDIT_WINDOW, ex, ey)
             clicked == IF found = EDIT_WINDOW THEN NONE ELSE found
         IN select_widget(s1, clicked)

\* cb_on_marker_pressed / cb_on_marker_released
cb_on_marker_pressed(s, button) ==
    IF button = LEFT THEN [s EXCEPT !.marker_dragged = TRUE] ELSE s

cb_on_marker_released(s, button) ==
    IF button = LEFT THEN [s EXCEPT !.marker_dragged = FALSE] ELSE s

\* Crosses with strict comparisons: a delta that brings the marker exactly
\* onto the opposite marker is let through
Crosses_strict(s, m, new_x, new_y) ==
    CASE m = 1 -> new_x > s.markers[3].x \/ new_y > s.markers[3].y
      [] m = 2 -> new_x < s.markers[4].x \/ new_y > s.markers[4].y
      [] m = 3 -> new_x < s.markers[1].x \/ new_y < s.markers[1].y
      [] m = 4 -> new_x > s.markers[2].x \/ new_y < s.markers[2].y

\* the test each marker makes against the diagonally opposite marker
\* before it accepts (rel_x, rel_y)
Crosses(s, m, new_x, new_y) ==
    CASE m = 1 -> new_x >= s.markers[3].x \/ new_y >= s.markers[3].y
      [] m = 2 -> new_x <= s.markers[4].x \/ new_y >= s.markers[4].y
      [] m = 3 -> new_x <= s.markers[1].x \/ new_y <= s.markers[1].y
      [] m = 4 -> new_x >= s.markers[2].x \/ new_y <= s.markers[2].y

\* a geometry change that grows the widget at its bottom right corner for
\* every marker
Resize_bottom_right(w, m, rel_x, rel_y) ==
    [w EXCEPT !.width = @ + rel_x, !.height = @ + rel_y]

\* the geometry change of an accepted delta, per marker
Resize(w, m, rel_x, rel_y) ==
    CASE m = 1 -> [w EXCEPT !.x = @ + rel_x, !.y = @ + rel_y,
                            !.width = @ + rel_x * (-1),
                            !.height = @ + rel_y * (-1)]
      [] m = 2 -> [w EXCEPT !.y = @ + rel_y, !.width = @ + rel_x,
                            !.height = @ + rel_y * (-1)]
      [] m = 3 -> [w EXCEPT !.width = @ + rel_x, !.height = @ + rel_y]
      [] m = 4 -> [w EXCEPT !.x = @ + rel_x, !.width = @ + rel_x * (-1),
                            !.height = @ + rel_y]

\* cb_on_marker_dragged that applies the horizontal part of the delta before
\* it tests the vertical part
cb_on_marker_dragged_partial(s, m, rel_x, rel_y) ==
    LET old == get_pos_in_scrollarea(s, MarkerRef(m))
        new_x == old.x + rel_x
        new_y == old.y + rel_y
        opp == s.markers[((m + 1) % 4) + 1]
        crossX == IF m \in {1, 4} THEN new_x >= opp.x ELSE new_x <= opp.x
        sx == [s EXCEPT !.tree[s.selected_widget] = Resize(@, m, rel_x, 0)]
    IN IF crossX THEN s
       ELSE IF Crosses(s, m, new_x, new_y) THEN sx
       ELSE update_editor(
                [s EXCEPT !.tree[s.selected_widget] = Resize(@, m, rel_x, rel_y),
                          !.markers[m] = [x |-> @.x + rel_x, y |-> @.y + rel_y]])

\* cb_on_marker_dragged: marker m (1..4 = TL, TR, BR, BL) dragged by
\* (rel_x, rel_y)
cb_on_marker_dragged(s, m, rel_x, rel_y) ==
    LET old == get_pos_in_scrollarea(s, MarkerRef(m))
        new_x == old.x + rel_x
        new_y == old.y + rel_y
    IN IF Crosses(s, m, new_x, new_y) THEN s
       ELSE IF s.selected_widget = NONE THEN Raise(s, "AttributeError")
       ELSE update_editor(
                [s EXCEPT !.tree[s.selected_widget] = Resize(@, m, rel_x, rel_y),
                          !.markers[m] = [x |-> @.x + rel_x, y |-> @.y + rel_y]])

\* cb_on_edit_window_dragged that keeps the anchor of the press
cb_on_edit_window_dragged_anchored(s, ex, ey) ==
    IF s.marker_dragged THEN s
    ELSE IF s.selected_widget = NONE THEN s
    ELSE LET rel_x == ex - s.old_x
             rel_y == ey - s.old_y
             s1 == update_editor(
                       [s EXCEPT !.tree[s.selected_widget].x = @ + rel_x,
                                 !.tree[s.selected_widget].y = @ + rel_y])
         IN IF ~Ok(s1) THEN s1
            ELSE [s1 EXCEPT !.widget_dragged = TRUE]

\* cb_on_edit_window_dragged without the test of the marker flag
cb_on_edit_window_dragged_unflagged(s, ex, ey) ==
    IF s.selected_widget = NONE THEN s
    ELSE LET rel_x == ex - s.old_x
             rel_y == ey - s.old_y
             s1 == update_editor(
                       [s EXCEPT !.tree[s.selected_widget].x = @ + rel_x,
                                 !.tree[s.selected_widget].y = @ + rel_y])
         IN IF ~Ok(s1) THEN s1
            ELSE [s1 EXCEPT !.old_x = ex, !.old_y = ey,
                            !.widget_dragged = TRUE]

\* cb_on_edit_window_dragged: a drag delivered to the edit window
cb_on_edit_window_dragged(s, ex, ey) ==
    IF s.marker_dragged THEN s
    ELSE IF s.selected_widget = NONE THEN s
    ELSE LET rel_x == ex - s.old_x
             rel_y == ey - s.old_y
             s1 == update_editor(
                       [s EXCEPT !.tree[s.selected_widget].x = @ + rel_x,
                                 !.tree[s.selected_widget].y = @ + rel_y])
         IN IF ~Ok(s1) THEN s1
            ELSE [s1 EXCEPT !.old_x = ex, !.old_y = ey,
                            !.widget_dragged = TRUE]


(***************************************************************************)
(* The widget list                                                         *)
(***************************************************************************)
RECURSIVE PreOrder(_, _)
RECURSIVE PreOrderAll(_, _, _)
\* add_widget_to_list: the widget, then its children (a widget without a
\* child list contributes only itself)
PreOrder(t, w) ==
    IF t[w].kind = "Container"
    THEN <<w>> \o PreOrderAll(t, t[w].children, 1)
    ELSE <<w>>

PreOrderAll(t, kids, i) ==
    IF i > Len(kids) THEN <<>>
    ELSE PreOrder(t, kids[i]) \o PreOrderAll(t, kids, i + 1)

add_widget_to_list(s, w) == [s EXCEPT !.widgets = @ \o PreOrder(s.tree, w)]

\* update_combo: the drop-down takes a copy of the list
update_combo(s) == [s EXCEPT !.combo_items = s.widgets]

(***************************************************************************)
(* Palette: tool_clicked                                                   *)
(***************************************************************************)
Tools == {"Container", "ScrollArea", "Label"}

\* "New_%s" % tool
ToolText(tool) ==
    CASE tool = "Container" -> <<"C", "o", "n", "t", "a", "i", "n", "e", "r">>
      [] tool = "ScrollArea" ->
            <<"S", "c", "r", "o", "l", "l", "A", "r", "e", "a">>
      [] tool = "Label" -> <<"L", "a", "b", "e", "l">>
NewName(tool) == <<"N", "e", "w", "_">> \o ToolText(tool)

\* the size given to the new widget under a selected parent
FitSize(parent_extent) ==
    IF parent_extent < DefaultSize THEN parent_extent - 1 ELSE DefaultSize

InvalidParentMessage ==
    "Please select a widget that can contain children or select None to add with no parent."

\* tool_clicked that swallows the RuntimeError of addChild without a message
tool_clicked_silent(s, tool) ==
    LET new_widget == Len(s.tree) + 1
        sel == s.selected_widget
    IN IF sel # NONE
       THEN IF ~AcceptsChild(s.tree[sel].kind)
            THEN s
            ELSE LET width == FitSize(s.tree[sel].width)
                     height == FitSize(s.tree[sel].height)
                     obj == [NewWidget(tool, 0, 0, width, height)
                                EXCEPT !.parent = sel, !.name = NewName(tool)]
                     t1 == Append(s.tree, obj)
                     t2 == IF s.tree[sel].kind = "Container"
                           THEN [t1 EXCEPT ![sel].children = Append(@, new_widget)]
                           ELSE [t1 EXCEPT ![sel].content = new_widget]
                     s1 == update_combo(
                               add_widget_to_list([s EXCEPT !.tree = t2],
                                                  new_widget))
                 IN select_widget(s1, new_widget)
       ELSE LET obj == [NewWidget(tool, 0, 0, DefaultSize, DefaultSize)
                           EXCEPT !.parent = EDIT_WINDOW,
                                  !.name = NewName(tool)]
                s1 == update_combo(
                          add_widget_to_list(
                              [s EXCEPT !.tree = Append(@, obj),
                                        !.edit_children = Append(@, new_widget)],
                              new_widget))
            IN select_widget(s1, new_widget)

tool_clicked(s, tool) ==
    LET new_widget == Len(s.tree) + 1
        sel == s.selected_widget
    IN IF sel # NONE
       THEN IF ~AcceptsChild(s.tree[sel].kind)
            \* addChild raises RuntimeError, which is caught
            THEN [s EXCEPT !.errors = Append(@, InvalidParentMessage)]
            ELSE LET width == FitSize(s.tree[sel].width)
                     height == FitSize(s.tree[sel].height)
                     obj == [NewWidget(tool, 0, 0, width, height)
                                EXCEPT !.parent = sel, !.name = NewName(tool)]
                     t1 == Append(s.tree, obj)
                     t2 == IF s.tree[sel].kind = "Container"
                           THEN [t1 EXCEPT ![sel].children = Append(@, new_widget)]
                           ELSE [t1 EXCEPT ![sel].content = new_widget]
                     s1 == update_combo(
                               add_widget_to_list([s EXCEPT !.tree = t2],
                                                  new_widget))
                 IN select_widget(s1, new_widget)
       ELSE LET obj == [NewWidget(tool, 0, 0, DefaultSize, DefaultSize)
                           EXCEPT !.parent = EDIT_WINDOW,
                                  !.name = NewName(tool)]
                s1 == update_combo(
                          add_widget_to_list(
                              [s EXCEPT !.tree = Append(@, obj),
                                        !.edit_children = Append(@, new_widget)],
                              new_widget))
            IN select_widget(s1, new_widget)

(***************************************************************************)
(* File open: open_gui                                                     *)
(***************************************************************************)
\* The files the loader is given.  A layout is a sequence of widgets, the
\* first one the root; "up" is the index of the parent in the layout and
\* "slot" says whether the widget is a child or the content of its parent.
LayoutA == <<
    [kind |-> "Container", up |-> 0, slot |-> "child",
     x |-> 100, y |-> 100, width |-> 50, height |-> 50],
    [kind |-> "Label", up |-> 1, slot |-> "child",
     x |-> 10, y |-> 10, width |-> 20, height |-> 20],
    [kind |-> "Slider", up |-> 1, slot |-> "child",
     x |-> 20, y |-> 20, width |-> 20, height |-> 20] >>

LayoutB == <<
    [kind |-> "Container", up |-> 0, slot |-> "child",
     x |-> 20, y |-> 20, width |-> 100, height |-> 100],
    [kind |-> "ScrollArea", up |-> 1, slot |-> "child",
     x |-> 10, y |-> 10, width |-> 60, height |-> 60],
    [kind |-> "Label", up |-> 2, slot |-> "content",
     x |-> 0, y |-> 0, width |-> 30, height |-> 30] >>

Files == {"a.xml", "b.xml", "missing.xml", "malformed.xml", "unknown.xml"}

Layout(file) == IF file = "a.xml" THEN LayoutA ELSE LayoutB

\* what pychan.loadXML raises for the file, or "none"
LoadError(file) ==
    CASE file = "missing.xml" -> "IOError"
      [] file = "malformed.xml" -> "SAXParseException"
      [] file = "unknown.xml" -> "GuiXMLError"
      [] OTHER -> "none"

\* u"File '%s' was not found." % (filename), for the files of the model
NotFoundMessage(file) ==
    CASE file = "a.xml" -> "File 'a.xml' was not found."
      [] file = "b.xml" -> "File 'b.xml' was not found."
      [] file = "missing.xml" -> "File 'missing.xml' was not found."
      [] file = "malformed.xml" -> "File 'malformed.xml' was not found."
      [] file = "unknown.xml" -> "File 'unknown.xml' was not found."

\* the message open_gui shows for the exception of the load; for a
\* GuiXMLError it is unicode(error), the text the toolkit gave the error
ErrorMessage(file) ==
    CASE LoadError(file) = "IOError" -> NotFoundMessage(file)
      [] LoadError(file) = "SAXParseException" -> "Could not parse XML"
      [] OTHER -> "GuiXMLError"

\* the widgets of a layout as heap objects placed after the first `base`
\* objects of the heap
Instantiate(layout, base) ==
    [i \in 1..Len(layout) |->
        LET kidsOf == [j \in 1..Len(layout) |->
                          layout[j].up = i /\ layout[j].slot = "child"]
            cont == {j \in 1..Len(layout) :
                          layout[j].up = i /\ layout[j].slot = "content"}
        IN [NewWidget(layout[i].kind, layout[i].x, layout[i].y,
                      layout[i].width, layout[i].height) EXCEPT
            !.parent = IF layout[i].up = 0 THEN NONE ELSE base + layout[i].up,
            !.children = [k \in 1..Cardinality({j \in 1..Len(layout) : kidsOf[j]})
                             |-> base + (CHOOSE j \in 1..Len(layout) :
                                    /\ kidsOf[j]
                                    /\ Cardinality({q \in 1..j : kidsOf[q]}) = k)],
            !.content = IF cont = {} THEN NONE
                        ELSE base + (CHOOSE j \in cont : TRUE)]]

\* clear_gui: removeAllChildren detaches every child of the edit window,
\* the markers among them; self._markers and the selection are not touched
clear_gui(s) ==
    [s EXCEPT !.tree = [i \in 1..Len(s.tree) |->
                            IF s.tree[i].parent = EDIT_WINDOW
                            THEN [s.tree[i] EXCEPT !.parent = NONE]
                            ELSE s.tree[i]],
              !.edit_children = <<>>,
              !.markers_attached = FALSE]

\* open_gui that clears the edit window before it loads the file
open_gui_clear_first(s, file) ==
    IF LoadError(file) # "none"
    THEN [clear_gui(s) EXCEPT !.errors = Append(@, ErrorMessage(file))]
    ELSE LET gui == Len(s.tree) + 1
             s1 == add_widget_to_list(
                       [s EXCEPT !.tree = @ \o Instantiate(Layout(file), Len(s.tree))],
                       gui)
             s2 == clear_gui(s1)
         IN [s2 EXCEPT !.filename = file,
                       !.edit_children = Append(@, gui),
                       !.tree[gui].parent = EDIT_WINDOW]

open_gui(s, file) ==
    IF LoadError(file) # "none"
    THEN [s EXCEPT !.errors = Append(@, ErrorMessage(file))]
    ELSE LET gui == Len(s.tree) + 1
             s1 == add_widget_to_list(
                       [s EXCEPT !.tree = @ \o Instantiate(Layout(file), Len(s.tree))],
                       gui)
             s2 == clear_gui(s1)
         IN [s2 EXCEPT !.filename = file,
                       !.edit_children = Append(@, gui),
                       !.tree[gui].parent = EDIT_WINDOW]

\* The project files the file browser can hand over.  A project file is
\* kept as what the handler reads of it: whether file() can open it,
\* whether yaml.load can read it, whether it has settings.gui_path, and
\* its list "guis" (each entry already joined with the path).
Projects == {"a.pychan", "b.pychan", "missing.pychan", "malformed.pychan",
             "unknown.pychan", "absent.pychan", "garbled.pychan",
             "nosettings.pychan", "noguis.pychan"}

ProjectFile(project) ==
    LET good == [readable |-> TRUE, wellformed |-> TRUE, gui_path |-> TRUE,
                 guis |-> <<>>]
    IN CASE project = "a.pychan" -> [good EXCEPT !.guis = <<"a.xml">>]
         [] project = "b.pychan" -> [good EXCEPT !.guis = <<"b.xml">>]
         [] project = "missing.pychan" -> [good EXCEPT !.guis = <<"missing.xml">>]
         [] project = "malformed.pychan" ->
               [good EXCEPT !.guis = <<"malformed.xml">>]
         [] project = "unknown.pychan" -> [good EXCEPT !.guis = <<"unknown.xml">>]
         [] project = "absent.pychan" -> [good EXCEPT !.readable = FALSE]
         [] project = "garbled.pychan" -> [good EXCEPT !.wellformed = FALSE]
         [] project = "nosettings.pychan" ->
               [good EXCEPT !.gui_path = FALSE, !.guis = <<"a.xml">>]
         [] project = "noguis.pychan" -> good

\* the exception that leaves cb_on_project_file_selected before it calls
\* open_gui, or "none"
ProjectError(project) ==
    LET p == ProjectFile(project)
    IN IF ~p.readable THEN "IOError"
       ELSE IF ~p.wellformed THEN "YAMLError"
       ELSE IF ~p.gui_path THEN "KeyError"
       ELSE IF p.guis = <<>> THEN "IndexError"
       ELSE "none"

\* cb_on_project_file_selected: read the project file, open its first gui
cb_on_project_file_selected(s, project) ==
    IF ProjectError(project) # "none" THEN Raise(s, ProjectError(project))
    ELSE open_gui(s, ProjectFile(project).guis[1])

(***************************************************************************)
(* Keyboard, selector list, property edits                                 *)
(***************************************************************************)
\* EditorEventListener.keyPressed, Ctrl+Up
keyPressed(s) ==
    IF s.selected_widget = NONE THEN s
    ELSE LET parent == s.tree[s.selected_widget].parent IN
         IF parent # EDIT_WINDOW THEN select_widget(s, parent) ELSE s

\* cb_combo_item_selected: the user picked entry i (from 0) of the drop-down
cb_combo_item_selected(s, i) ==
    select_widget([s EXCEPT !.combo_selected = i], s.combo_items[i + 1])

\* attr.parse(value) for the value held by an editor: ok is FALSE where
\* parse raises ParserError
\*   PointAttr: two ints separated by a comma
\*   ColorAttr: four, or else three, ints from 0 to 255; alpha is 255
\*              when it is not given
\*   IntAttr:   int(value), value the unicode text of the field
\*   FloatAttr: float(value), value the unicode text of the field
\*   BoolAttr:  int(value) of the check box mark, 0 or 1
\*   Attr:      str(value)
parse(type, value) ==
    CASE type = "PointAttr" ->
            LET p == ParseInts(value)
            IN [ok |-> p.ok /\ Len(p.value) = 2, value |-> p.value]
      [] type = "ColorAttr" ->
            LET p == ParseInts(value)
                ok == /\ p.ok /\ Len(p.value) \in {3, 4}
                      /\ \A i \in 1..Len(p.value) :
                            0 <= p.value[i] /\ p.value[i] < 256
            IN [ok |-> ok,
                value |-> IF ok /\ Len(p.value) = 3
                          THEN Append(p.value, 255) ELSE p.value]
      [] type = "IntAttr" -> ParseInt(EncodeDecimal(value))
      [] type = "FloatAttr" -> ParseFloat(EncodeDecimal(value))
      [] type = "BoolAttr" -> [ok |-> TRUE, value |-> IF value THEN 1 ELSE 0]
      [] OTHER -> [ok |-> TRUE, value |-> value]

Parses(type, value) == parse(type, value).ok

\* setattr(self.selected_widget, attr.name, value)
SetAttr(w, name, value) ==
    CASE name = "name" -> [w EXCEPT !.name = value]
      [] name = "position" -> [w EXCEPT !.x = value[1], !.y = value[2]]
      [] name = "size" -> [w EXCEPT !.width = value[1], !.height = value[2]]
      [] name = "base_color" -> [w EXCEPT !.base_color = value]
      [] name = "border_size" -> [w EXCEPT !.border_size = value]
      [] name = "is_focusable" -> [w EXCEPT !.is_focusable = value]
      [] name = "scale_start" -> [w EXCEPT !.scale_start = value]

\* the editor of row i holds `value`: the text of its text field or the
\* mark of its check box
Edited(s, i, value) ==
    IF s.property_window[i].type = "BoolAttr"
    THEN [s EXCEPT !.property_window[i].marked = value]
    ELSE [s EXCEPT !.property_window[i].text = value]

\* cb_property_changed that never redraws the editor after a failed parse
cb_property_changed_no_revert(s, i, value, error) ==
    LET s1 == Edited(s, i, value)
        row == s.property_window[i]
        parsed == parse(row.type, value)
    IN IF parsed.ok
       THEN IF s1.selected_widget = NONE THEN Raise(s1, "AttributeError")
            ELSE position_markers(
                     [s1 EXCEPT !.tree[s1.selected_widget] =
                         SetAttr(@, row.name, parsed.value)])
       ELSE s1

\* cb_property_changed: the editor of row i holds `value`; error is True
\* for the final commit of a text field
cb_property_changed(s, i, value, error) ==
    LET s1 == Edited(s, i, value)
        row == s.property_window[i]
        parsed == parse(row.type, value)
    IN IF parsed.ok
       THEN IF s1.selected_widget = NONE THEN Raise(s1, "AttributeError")
            ELSE position_markers(
                     [s1 EXCEPT !.tree[s1.selected_widget] =
                         SetAttr(@, row.name, parsed.value)])
       ELSE IF error THEN update_editor(s1) ELSE s1


(***************************************************************************)
(* Inputs                                                                  *)
(***************************************************************************)
\* points of the edit surface where the pointer is pressed
Points == {<<5, 5>>, <<48, 48>>, <<70, 70>>, <<96, 96>>, <<105, 105>>,
           <<115, 115>>, <<125, 125>>, <<48, 2>>, <<2, 48>>}
\* points the pointer is dragged to over the body of the edit surface
DragPoints == {<<105, 105>>, <<125, 115>>, <<40, 70>>}
\* the offsets (rel_x, rel_y) of the pointer inside a dragged marker
Deltas == {<<60, 60>>, <<50, 10>>, <<10, 50>>, <<10, 10>>,
           <<-50, -50>>, <<-50, 10>>, <<10, -50>>, <<-49, -49>>}
\* the texts typed into a property editor, numbered
TextList ==
    << FormatPoint(30, 30),                       \* "30, 30"
       Malformed,                                 \* "abc"
       <<"7">>,                                   \* "7"
       <<"1", ",", "2", ",", "3">>,               \* "1,2,3"
       <<" ", "5", " ", ",", " ", "6", " ">>,     \* " 5 , 6 "
       <<"1", ",", "2">>,                         \* "1,2"
       FormatColor(<<1, 2, 3, 4>>),               \* "1, 2, 3, 4"
       <<"3", "0", "0", ",", "1", ",", "1">>,     \* "300,1,1"
       <<"-", "7">>,                              \* "-7"
       <<"1", ".", "5">>,                         \* "1.5"
       <<>>,                                      \* ""
       <<"2", "e", "1">>,                         \* "2e1"
       <<"-", " ", "5">>,                         \* "- 5"
       <<"5", ",", " ", "-", " ", "6">>,          \* "5, - 6"
       <<"\f", "7">>,                             \* form feed, "7"
       <<FileSeparator, "7">> >>                  \* file separator, "7"
Texts == {TextList[k] : k \in 1..Len(TextList)}

\* the edits explored between the other events of a run: the attribute
\* edited, the number of the text typed, and whether it is the final
\* commit.  Position and size edits move the markers and the hit boxes;
\* PanelEdit below tries every text on every row.
EditInputs ==
    {[name |-> "position", k |-> k, error |-> e] : k \in {1, 2}, e \in BOOLEAN}
    \cup {[name |-> "size", k |-> 1, error |-> FALSE],
          [name |-> "size", k |-> 2, error |-> TRUE],
          [name |-> "base_color", k |-> 4, error |-> TRUE],
          [name |-> "position", k |-> 14, error |-> TRUE]}

\* the marker that receives a mouse event at (x, y): the topmost child of
\* the edit window under the pointer, 0 when that is no marker
TopMarker(s, x, y) ==
    LET hit == {i \in 1..Len(s.markers) :
                   /\ s.markers_attached
                   /\ x >= s.markers[i].x /\ x < s.markers[i].x + MarkerSize
                   /\ y >= s.markers[i].y /\ y < s.markers[i].y + MarkerSize}
    IN IF hit = {} THEN 0 ELSE CHOOSE i \in hit : \A j \in hit : j <= i

NoEvent == [ev |-> "none", x |-> 0, y |-> 0]
NoButton == [src |-> "none", button |-> 0]
Did(op, a, b, c, r) == [op |-> op, a |-> a, b |-> b, c |-> c, r |-> r]

\* the handlers of one event run to completion before the next event
Idle == raised = "none" /\ pending = NoEvent
Ready == Idle /\ events < MaxEvents

\* the pressed marker object no longer exists once the markers are rebuilt
AfterRebuild(s, m) ==
    IF s.markers_removed /\ m.src \in {"TL", "TR", "BR", "BL"}
    THEN [m EXCEPT !.src = "lost"] ELSE m

(***************************************************************************)
(* Initial state: EditorApplication.__init__ and init_gui                  *)
(***************************************************************************)
\* the editor as __init__ and init_gui leave it
InitialState ==
    [tree |-> <<>>, edit_children |-> <<>>, markers |-> <<>>,
     markers_attached |-> FALSE, selected_widget |-> NONE,
     marker_dragged |-> FALSE, widget_dragged |-> FALSE,
     old_x |-> 0, old_y |-> 0, widgets |-> <<>>, combo_selected |-> -1,
     combo_items |-> <<>>, property_window |-> <<>>, filename |-> "None",
     errors |-> <<>>, raised |-> "none", steps |-> <<>>,
     markers_removed |-> FALSE]

\* the editor state s as a handler finds it when it is called
Entered(s) == [s EXCEPT !.steps = <<>>, !.markers_removed = FALSE]

\* the variables hold the editor state s
Holds(s) ==
    /\ tree = s.tree
    /\ edit_children = s.edit_children
    /\ markers = s.markers
    /\ markers_attached = s.markers_attached
    /\ selected_widget = s.selected_widget
    /\ marker_dragged = s.marker_dragged
    /\ widget_dragged = s.widget_dragged
    /\ old_x = s.old_x
    /\ old_y = s.old_y
    /\ widgets = s.widgets
    /\ combo_selected = s.combo_selected
    /\ combo_items = s.combo_items
    /\ property_window = s.property_window
    /\ filename = s.filename
    /\ errors = s.errors
    /\ raised = s.raised
    /\ steps = s.steps

Init ==
    /\ Holds(InitialState)
    /\ mouse = NoButton
    /\ pending = NoEvent
    /\ events = 0
    /\ edits = 0
    /\ last = Did("init", 0, 0, 0, 0)

(***************************************************************************)
(* Actions: one per handler                                                *)
(***************************************************************************)
\* a press on a marker: the marker's handler runs, then the event goes on
\* to the edit window, the marker's parent
MarkerPressed ==
    /\ Ready /\ mouse = NoButton
    /\ \E p \in Points, b \in Buttons :
         LET m == TopMarker(St, p[1], p[2]) IN
         /\ m # 0
         /\ Commit(cb_on_marker_pressed(St, b))
         /\ mouse' = [src |-> Handles[m], button |-> b]
         /\ pending' = [ev |-> "pressed", x |-> p[1], y |-> p[2]]
         /\ events' = events + 1
         /\ last' = Did("cb_on_marker_pressed", m, b, 0, 0)
    /\ UNCHANGED edits

\* the press on a marker reaches the edit window
WidgetSelectedAfterMarker ==
    /\ raised = "none" /\ pending.ev = "pressed"
    /\ LET s == cb_on_widget_selected(St, pending.x, pending.y) IN
       /\ Commit(s)
       /\ mouse' = AfterRebuild(s, mouse)
       /\ pending' = NoEvent
       /\ UNCHANGED events
       /\ last' = Did("cb_on_widget_selected", 0, 0, 1,
                      get_widget_in(St, EDIT_WINDOW, pending.x, pending.y))
    /\ UNCHANGED edits

\* a press on the body of the edit surface
WidgetSelected ==
    /\ Ready /\ mouse = NoButton
    /\ \E p \in Points :
         /\ TopMarker(St, p[1], p[2]) = 0
         /\ Commit(cb_on_widget_selected(St, p[1], p[2]))
         /\ mouse' = [src |-> "body", button |-> LEFT]
         /\ UNCHANGED pending
         /\ events' = events + 1
         /\ last' = Did("cb_on_widget_selected", p[1], p[2], 0,
                        get_widget_in(St, EDIT_WINDOW, p[1], p[2]))
    /\ UNCHANGED edits

\* the pressed marker is dragged: the pointer is at (dx, dy) inside it
MarkerDragged ==
    /\ Ready /\ mouse.src \in {"TL", "TR", "BR", "BL"}
    /\ \E d \in Deltas :
         LET m == HandleIx(mouse.src)
             dx == d[1]
             dy == d[2]
             s == cb_on_marker_dragged(St, m, dx, dy) IN
         /\ Commit(s)
         /\ UNCHANGED mouse
         /\ pending' = [ev |-> "dragged", x |-> markers[m].x + dx,
                                          y |-> markers[m].y + dy]
         /\ events' = events + 1
         /\ last' = Did("cb_on_marker_dragged", m, dx, dy,
                        IF Crosses(St, m, markers[m].x + dx, markers[m].y + dy)
                        THEN 0 ELSE 1)
    /\ UNCHANGED edits

\* the drag of a marker reaches the edit window
EditWindowDraggedAfterMarker ==
    /\ raised = "none" /\ pending.ev = "dragged"
    /\ Commit(cb_on_edit_window_dragged(St, pending.x, pending.y))
    /\ pending' = NoEvent
    /\ UNCHANGED <<mouse, events>>
    /\ last' = Did("cb_on_edit_window_dragged", pending.x, pending.y, 1, 0)
    /\ UNCHANGED edits

\* a drag that began on the body of the edit surface
EditWindowDragged ==
    /\ Ready /\ mouse.src = "body"
    /\ \E p \in DragPoints :
         /\ Commit(cb_on_edit_window_dragged(St, p[1], p[2]))
         /\ UNCHANGED <<mouse, pending>>
         /\ events' = events + 1
         /\ last' = Did("cb_on_edit_window_dragged", p[1], p[2], 0, 0)
    /\ UNCHANGED edits

\* the button is released over the marker it was pressed on
MarkerReleased ==
    /\ Idle /\ mouse.src \in {"TL", "TR", "BR", "BL"}
    /\ Commit(cb_on_marker_released(St, mouse.button))
    /\ mouse' = NoButton
    /\ UNCHANGED <<pending, events>>
    /\ last' = Did("cb_on_marker_released", HandleIx(mouse.src), mouse.button, 0, 0)
    /\ UNCHANGED edits

\* the pressed marker is gone and the button is released over a new marker
MarkerReleasedOther ==
    /\ Idle /\ mouse.src = "lost" /\ markers_attached
    /\ Commit(cb_on_marker_released(St, mouse.button))
    /\ mouse' = NoButton
    /\ UNCHANGED <<pending, events>>
    /\ last' = Did("cb_on_marker_released", 0, mouse.button, 0, 0)
    /\ UNCHANGED edits

\* the button is released where no handler listens
MouseReleased ==
    /\ Idle /\ mouse.src \in {"body", "lost"}
    /\ mouse' = NoButton
    /\ last' = Did("released", 0, mouse.button, 0, 0)
    /\ UNCHANGED <<appvars, pending, events>>
    /\ UNCHANGED edits

ToolClicked ==
    /\ Ready /\ mouse = NoButton
    /\ Len(tree) < MaxNodes
    /\ \E tool \in Tools :
         /\ Commit(tool_clicked(St, tool))
         /\ last' = Did("tool_clicked", 0, 0, 0, selected_widget)
    /\ events' = events + 1
    /\ UNCHANGED <<mouse, pending>>
    /\ UNCHANGED edits

OpenGui ==
    /\ Ready /\ mouse = NoButton
    /\ \E project \in Projects :
         LET file == IF ProjectError(project) = "none"
                     THEN ProjectFile(project).guis[1] ELSE "none"
             loads == file # "none" /\ LoadError(file) = "none" IN
         /\ loads => Len(tree) + Len(Layout(file)) <= MaxNodes
         /\ Commit(cb_on_project_file_selected(St, project))
         /\ last' = IF file = "none"
                    THEN Did("cb_on_project_file_selected", 0, 0, 0, 0)
                    ELSE Did("open_gui", 0, 0, 0, IF loads THEN 1 ELSE 0)
    /\ events' = events + 1
    /\ UNCHANGED <<mouse, pending>>
    /\ UNCHANGED edits

KeyPressed ==
    /\ Ready
    /\ LET s == keyPressed(St) IN
       /\ Commit(s)
       /\ mouse' = AfterRebuild(s, mouse)
    /\ events' = events + 1
    /\ last' = Did("keyPressed", 0, 0, 0, selected_widget)
    /\ UNCHANGED pending
    /\ UNCHANGED edits

ComboItemSelected ==
    /\ Ready /\ mouse = NoButton
    /\ \E i \in 0..(Len(combo_items) - 1) :
         /\ Commit(cb_combo_item_selected(St, i))
         /\ last' = Did("cb_combo_item_selected", i, 0, 0, selected_widget)
    /\ events' = events + 1
    /\ UNCHANGED <<mouse, pending>>
    /\ UNCHANGED edits

PropertyChanged ==
    /\ Ready /\ mouse = NoButton /\ edits < MaxEdits
    /\ \E i \in 1..Len(property_window) :
         IF property_window[i].type = "BoolAttr"
         \* a click on the check box flips its mark
         THEN /\ Commit(cb_property_changed(St, i, ~property_window[i].marked,
                                            FALSE))
              /\ last' = Did("cb_property_changed", i, 0, 0, 1)
         \* a key press in the text field, or its final commit
         ELSE \E e \in EditInputs :
                 /\ e.name = property_window[i].name
                 /\ Commit(cb_property_changed(St, i, TextList[e.k], e.error))
                 /\ last' = Did("cb_property_changed", i,
                                IF e.error THEN 1 ELSE 0, e.k,
                                IF Parses(property_window[i].type, TextList[e.k])
                                THEN 1 ELSE 0)
    /\ events' = events + 1
    /\ edits' = edits + 1
    /\ UNCHANGED <<mouse, pending>>

Next ==
    \/ MarkerPressed
    \/ WidgetSelectedAfterMarker
    \/ WidgetSelected
    \/ MarkerDragged
    \/ EditWindowDraggedAfterMarker
    \/ EditWindowDragged
    \/ MarkerReleased
    \/ MarkerReleasedOther
    \/ MouseReleased
    \/ ToolClicked
    \/ OpenGui
    \/ KeyPressed
    \/ ComboItemSelected
    \/ PropertyChanged

Spec == Init /\ [][Next]_vars


(***************************************************************************)
(* Steps and helpers the properties speak about                            *)
(***************************************************************************)
\* the step is a run of cb_on_marker_dragged / cb_on_marker_pressed
MarkerDragStep == pending.ev = "none" /\ pending'.ev = "dragged"
MarkerPressStep == pending.ev = "none" /\ pending'.ev = "pressed"
\* the step is the run of cb_on_widget_selected for a press on a marker
BubbledPressStep == pending.ev = "pressed" /\ pending'.ev = "none"
\* the step is a run of cb_on_widget_selected for a press on the body
BodyPressStep ==
    /\ pending.ev = "none" /\ pending'.ev = "none"
    /\ last'.op = "cb_on_widget_selected" /\ events' = events + 1

Selected == tree[selected_widget]

\* width and height the selected widget would get from the delta (dx, dy)
\* on marker m
WouldBeWidth(m, dx) ==
    IF m \in {1, 4} THEN Selected.width - dx ELSE Selected.width + dx
WouldBeHeight(m, dy) ==
    IF m \in {1, 2} THEN Selected.height - dy ELSE Selected.height + dy

(***************************************************************************)
(* C1: starting from a selected widget with width > 0 and height > 0, a    *)
(* handle-drag event (any of TL, TR, BR, BL, any delta) leaves the         *)
(* selected widget with width > 0 and height > 0; so does any sequence of  *)
(* them.                                                                   *)
(***************************************************************************)
C1_ResizeKeepsSizePositive ==
    [][(MarkerDragStep /\ selected_widget # NONE
            /\ Selected.width > 0 /\ Selected.height > 0)
        => (tree'[selected_widget].width > 0
            /\ tree'[selected_widget].height > 0)]_vars

\* TL was dragged by (10, 10) and the delta was accepted: 50 x 50 became 40 x 40
C1_Witness ==
    /\ last = Did("cb_on_marker_dragged", 1, 10, 10, 1)
    /\ selected_widget # NONE
    /\ Selected.width = 40 /\ Selected.height = 40

(* bounds, mapped to edit-surface space, are (left, top, width, height),   *)
(* the handles are at TL = (left-5, top-5), TR = (left+width-5, top-5),    *)
(* BR = (left+width-5, top+height-5), BL = (left-5, top+height-5).         *)
(***************************************************************************)
HandlesBracketSelection ==
    LET pos == get_pos_in_scrollarea(St, selected_widget)
        left == pos.x
        top == pos.y
        width == Selected.width
        height == Selected.height
    IN markers = << [x |-> left - 5, y |-> top - 5],
                    [x |-> left + width - 5, y |-> top - 5],
                    [x |-> left + width - 5, y |-> top + height - 5],
                    [x |-> left - 5, y |-> top + height - 5] >>

C3_HandlesNeverStale ==
    (raised = "none" /\ selected_widget # NONE) => HandlesBracketSelection

(***************************************************************************)
(* C4: the handle set holds no handle when the selection is none and the   *)
(* four handles TL, TR, BR, BL when the selection is a node, and every     *)
(* handle of the set is a child of the edit root.  Stated for the states   *)
(* in which no handler has failed.                                         *)
(***************************************************************************)
C4_HandleSetMatchesSelection ==
    raised = "none" =>
        /\ selected_widget = NONE => Len(markers) = 0
        /\ selected_widget # NONE => Len(markers) = 4
        /\ Len(markers) > 0 => markers_attached

(***************************************************************************)
(* C5: the selection is none or a node that is in the tree under the edit  *)
(* root.                                                                   *)
(***************************************************************************)
RECURSIVE UnderEditRoot(_, _)
UnderEditRoot(s, w) ==
    IF w = EDIT_WINDOW THEN TRUE
    ELSE IF w = NONE THEN FALSE
    ELSE UnderEditRoot(s, Parent(s, w))

C5_SelectionInTree ==
    selected_widget = NONE \/ UnderEditRoot(St, selected_widget)


\* the step is a run of cb_on_widget_selected that finds no marker active
PressHandledStep ==
    /\ ~marker_dragged
    /\ BodyPressStep \/ BubbledPressStep

(***************************************************************************)
(* C8: a press on the edit surface with no handle active whose hit test    *)
(* resolves to the edit window itself (empty background) sets the          *)
(* selection to none and removes all handles; a press that resolves to a   *)
(* contained widget makes that widget the selection.                       *)
(***************************************************************************)
C8_PressSelectsHitOrClears ==
    [][PressHandledStep =>
          /\ last'.r = EDIT_WINDOW =>
                (selected_widget' = NONE /\ markers' = <<>>)
          /\ IsNode(last'.r) => selected_widget' = last'.r]_vars

(***************************************************************************)
(* C9: select_widget(h) for h one of the four current handles is rejected: *)
(* the selection, the handle set, the selector-list index and the property *)
(* panel are unchanged.                                                    *)
(***************************************************************************)
C9_SelectingHandleRejected ==
    [][(PressHandledStep /\ IsMarkerRef(last'.r))
          => UNCHANGED <<selected_widget, markers, markers_attached,
                         combo_selected, property_window>>]_vars

\* a right-button press on a handle reached the edit window, the hit test
\* resolved to the handle TL, and a widget is still selected with its handles
C9_Witness ==
    /\ last = Did("cb_on_widget_selected", 0, 0, 1, MarkerRef(1))
    /\ ~marker_dragged
    /\ raised = "none"
    /\ selected_widget # NONE
    /\ Len(markers) = 4 /\ markers_attached

(***************************************************************************)
(* C10: a press on a handle sets the marker flag and the press handler of  *)
(* the edit window that fires for the same event leaves the selection      *)
(* unchanged, for every handle and every button.  cb_on_marker_pressed     *)
(* sets the flag for button 1 only, so a press with another button on a    *)
(* handle is hit-tested and reselects.                                     *)
(***************************************************************************)
C10_AnyButtonPressSuppressed ==
    [][/\ MarkerPressStep => marker_dragged'
       /\ BubbledPressStep => selected_widget' = selected_widget]_vars

(***************************************************************************)
(* The part of C10 the code keeps: a press of the left button (id 1) on a  *)
(* handle sets the marker flag and the press handler of the edit window    *)
(* that fires for the same event leaves the selection and the handles      *)
(* unchanged, for every handle.                                            *)
(***************************************************************************)
C10_LeftPressSuppressed ==
    [][/\ (MarkerPressStep /\ mouse'.button = LEFT) => marker_dragged'
       /\ (BubbledPressStep /\ mouse.button = LEFT)
             => UNCHANGED <<selected_widget, markers, markers_attached>>]_vars

\* the left button went down on a handle lying over another widget than the
\* selected one; the edit window has handled the press, the flag is set and
\* the selection is still the widget the handles belong to
C10_Witness ==
    /\ last.op = "cb_on_widget_selected" /\ last.c = 1
    /\ mouse.button = LEFT /\ mouse.src \in {"TL", "TR", "BR", "BL"}
    /\ marker_dragged
    /\ IsNode(last.r) /\ last.r # selected_widget
    /\ selected_widget # NONE /\ Len(markers) = 4



(***************************************************************************)
(* The hit test as a function: a specification that builds an editor state *)
(* by a file open, a press, an insertion and a body drag, and then asks    *)
(* get_widget_in about a root and a point.                                 *)
(***************************************************************************)
NoPoint == <<-1, -1>>

\* the editor after: open file; press at p; insert tool; drag the body to d
\* (each of the last three left out when p, tool, d is NoPoint / "none")
Built(file, p, tool, d) ==
    LET s1 == open_gui(InitialState, file)
        s2 == IF p = NoPoint THEN s1
              ELSE cb_on_widget_selected(Entered(s1), p[1], p[2])
        s3 == IF tool = "none" \/ ~Ok(s2) THEN s2
              ELSE tool_clicked(Entered(s2), tool)
        s4 == IF d = NoPoint \/ ~Ok(s3) THEN s3
              ELSE cb_on_edit_window_dragged(Entered(s3), d[1], d[2])
    IN s4

InitHit ==
    /\ \E file \in {"a.xml", "b.xml"}, p \in Points \cup {NoPoint},
          tool \in Tools \cup {"none"}, d \in DragPoints \cup {NoPoint} :
         /\ Len(Built(file, p, tool, d).tree) <= MaxNodes
         /\ Ok(Built(file, p, tool, d))
         /\ Holds(Built(file, p, tool, d))
    /\ mouse = NoButton
    /\ pending = NoEvent
    /\ events = 0
    /\ edits = 0
    /\ last = Did("init", 0, 0, 0, 0)

\* the points the hit test is asked about: the press points and points on
\* and next to the edges of the loaded widgets
QueryPoints == Points \cup {<<100, 100>>, <<130, 130>>, <<150, 150>>, <<151, 100>>}

\* the widgets the hit test can be started from
Roots ==
    {EDIT_WINDOW} \cup (1..Len(tree))
        \cup {MarkerRef(i) : i \in {j \in 1..Len(markers) : markers_attached}}

HitTest ==
    /\ last.op = "init"
    /\ \E root \in Roots, q \in QueryPoints :
         last' = Did("get_widget_in", root, q[1], q[2],
                     get_widget_in(St, root, q[1], q[2]))
    /\ UNCHANGED <<appvars, mouse, pending, events>>
    /\ UNCHANGED edits

NextHit == HitTest

SpecHit == InitHit /\ [][NextHit]_vars

\* the children of a widget, or its content, as the hit test walks them
Below(s, w) ==
    IF HasChildren(s, w) THEN Children(s, w)
    ELSE IF HasContent(s, w) /\ s.tree[w].content # NONE
         THEN <<s.tree[w].content>>
         ELSE <<>>

RECURSIVE SubtreeOf(_, _)
SubtreeOf(s, w) ==
    {w} \cup UNION {SubtreeOf(s, Below(s, w)[i]) : i \in 1..Len(Below(s, w))}

(***************************************************************************)
(* C6: for every root and every query point the hit test returns none      *)
(* exactly when the point lies outside the root's bounds, and otherwise a  *)
(* node of the root's subtree (through child lists and content slots)      *)
(* whose bounds contain the point.                                         *)
(***************************************************************************)
C6_HitTestReturnsContainingNode ==
    last.op = "get_widget_in" =>
        LET root == last.a
            found == last.r
        IN /\ (found = NONE) <=> ~InBounds(St, root, last.b, last.c)
           /\ found # NONE =>
                 /\ found \in SubtreeOf(St, root)
                 /\ InBounds(St, found, last.b, last.c)

\* from the edit window, (48, 48) resolves through the child list of the
\* loaded container and the content slot of its scroll area to the label
C6_Witness ==
    /\ last = Did("get_widget_in", EDIT_WINDOW, 48, 48, 3)
    /\ tree[3].parent = 2 /\ tree[2].content = 3
    /\ tree[2].parent = 1 /\ tree[1].parent = EDIT_WINDOW

(***************************************************************************)
(* C7: the hit test is deepest-match with first-child-wins: the node it    *)
(* returns has no child and no content whose bounds contain the point,     *)
(* and where it descended into a child, no earlier sibling of that child   *)
(* contains the point.                                                     *)
(***************************************************************************)
C7_DeepestFirstChildWins ==
    last.op = "get_widget_in" =>
        LET root == last.a
            found == last.r
        IN found # NONE =>
            /\ \A i \in 1..Len(Below(St, found)) :
                  ~InBounds(St, Below(St, found)[i], last.b, last.c)
            /\ \A p \in SubtreeOf(St, root) :
                  \A i \in 1..Len(Below(St, p)) :
                     found \in SubtreeOf(St, Below(St, p)[i]) =>
                        \A j \in 1..(i - 1) :
                           ~InBounds(St, Below(St, p)[j], last.b, last.c)

\* (125, 125) lies in both labels of the loaded container; the hit test
\* returned the first of them
C7_Witness ==
    /\ last = Did("get_widget_in", EDIT_WINDOW, 125, 125, 2)
    /\ tree[1].children = <<2, 3>>
    /\ InBounds(St, 2, 125, 125) /\ InBounds(St, 3, 125, 125)


(***************************************************************************)
(* C11: the resize state machine returns to idle on release: whenever no   *)
(* pointer button is down the marker flag is false, so the editor is never *)
(* left in dragging(h) after the button has been released.                 *)
(***************************************************************************)
C11_IdleAfterRelease ==
    mouse = NoButton => ~marker_dragged


\* the step is a run of cb_on_edit_window_dragged for a drag that began on
\* the body / for the drag of a marker that reaches the edit window
BodyDragStep ==
    /\ pending.ev = "none" /\ pending'.ev = "none"
    /\ last'.op = "cb_on_edit_window_dragged" /\ events' = events + 1
BubbledDragStep == pending.ev = "dragged" /\ pending'.ev = "none"

(***************************************************************************)
(* C12: move deltas are incremental and telescope.  A body press at p0     *)
(* records p0 as the anchor, resets the dragged flag and moves nothing;    *)
(* every body drag to p with a node selected and no handle active moves    *)
(* the selected widget by (p - anchor), keeps its size, sets the anchor to *)
(* p and the dragged flag to true.  So position - anchor is the same after *)
(* the press and after every drag: after drags to p1..pn the position is   *)
(* the position at the press plus (pn - p0).                               *)
(***************************************************************************)
C12_MoveTelescopes ==
    [][/\ BodyPressStep =>
             /\ old_x' = last'.a /\ old_y' = last'.b
             /\ ~widget_dragged'
             /\ tree' = tree
       /\ (BodyDragStep /\ selected_widget # NONE /\ ~marker_dragged) =>
             /\ tree'[selected_widget].x - last'.a = Selected.x - old_x
             /\ tree'[selected_widget].y - last'.b = Selected.y - old_y
             /\ tree'[selected_widget].width = Selected.width
             /\ tree'[selected_widget].height = Selected.height
             /\ old_x' = last'.a /\ old_y' = last'.b
             /\ widget_dragged'
             /\ selected_widget' = selected_widget]_vars

\* a.xml is loaded, its first label (at (10, 10) in its container) was
\* pressed at (115, 115) and dragged, in one or more events, to (125, 115):
\* it is at (10, 10) + (125, 115) - (115, 115)
C12_Witness ==
    /\ last = Did("cb_on_edit_window_dragged", 125, 115, 0, 0)
    /\ events = 4 /\ Len(tree) = 3 /\ filename = "a.xml"
    /\ selected_widget = 2
    /\ tree[2].x = 20 /\ tree[2].y = 10
    /\ old_x = 125 /\ old_y = 115
    /\ widget_dragged

(***************************************************************************)
(* C13: a body-drag event received with selection none, or received while  *)
(* a handle is being dragged (between a handle press and its release),     *)
(* leaves every node's position and size, the drag anchor and the dragged  *)
(* flag unchanged.                                                         *)
(***************************************************************************)
C13_MoveIsNoOpWithoutSelectionOrDuringResize ==
    [][/\ (BodyDragStep /\ selected_widget = NONE)
             => UNCHANGED <<tree, old_x, old_y, widget_dragged>>
       /\ BubbledDragStep
             => UNCHANGED <<tree, old_x, old_y, widget_dragged>>]_vars


\* the step is a run of tool_clicked; it has inserted a widget
ToolStep == last'.op = "tool_clicked" /\ events' = events + 1
InsertStep == ToolStep /\ Len(tree') = Len(tree) + 1
NewNode == tree'[Len(tree')]
Min(a, b) == IF a < b THEN a ELSE b

(***************************************************************************)
(* C14: the new widget is sized by the parent-fit rule: with a widget of   *)
(* size (W, H) selected its width is min(50, W - 1) and its height is      *)
(* min(50, H - 1); with no selection it is 50 x 50.                        *)
(***************************************************************************)
C14_ParentFitRule ==
    [][InsertStep =>
          IF selected_widget # NONE
          THEN /\ NewNode.width = Min(DefaultSize, Selected.width - 1)
               /\ NewNode.height = Min(DefaultSize, Selected.height - 1)
          ELSE /\ NewNode.width = DefaultSize
               /\ NewNode.height = DefaultSize]_vars

(***************************************************************************)
(* C15: tool_clicked with a selected widget that cannot take children      *)
(* surfaces an error message and changes nothing else: the tree, the       *)
(* widget list, the selection, the handle set and all geometry are what    *)
(* they were, and the editor goes on.                                      *)
(***************************************************************************)
C15_InvalidParentReportedOnly ==
    [][(ToolStep /\ selected_widget # NONE /\ ~AcceptsChild(Selected.kind)) =>
          /\ errors' = Append(errors, InvalidParentMessage)
          /\ raised' = "none"
          /\ UNCHANGED <<tree, edit_children, widgets, combo_items,
                         combo_selected, selected_widget, markers,
                         markers_attached, property_window>>]_vars

\* a tool was clicked with a label selected: the message is there and the
\* label is still selected
C15_Witness ==
    /\ last.op = "tool_clicked"
    /\ selected_widget # NONE /\ last.r = selected_widget
    /\ Selected.kind = "Label"
    /\ errors # <<>> /\ errors[Len(errors)] = InvalidParentMessage
    /\ raised = "none"


\* the four handles are children of the edit window and bracket the
\* selection in the state the step leads to
HandlesBracketSelectionAfter ==
    LET s == [tree |-> tree', markers |-> markers',
              selected_widget |-> selected_widget']
        pos == get_pos_in_scrollarea(s, selected_widget')
        left == pos.x
        top == pos.y
        width == tree'[selected_widget'].width
        height == tree'[selected_widget'].height
    IN /\ markers_attached'
       /\ markers' = << [x |-> left - 5, y |-> top - 5],
                        [x |-> left + width - 5, y |-> top - 5],
                        [x |-> left + width - 5, y |-> top + height - 5],
                        [x |-> left - 5, y |-> top + height - 5] >>

(***************************************************************************)
(* C16: a tool_clicked that inserts adds exactly one node, as the last     *)
(* child of the selected container (the content of a selected scroll area, *)
(* the last child of the edit window when nothing is selected), adds it to *)
(* the widget list and makes it the selection with four handles            *)
(* bracketing it; no other node's parent, position or size changes.        *)
(***************************************************************************)
C16_InsertAddsOneSelectedNode ==
    [][InsertStep =>
          LET n == Len(tree') IN
          /\ IF selected_widget = NONE
             THEN /\ NewNode.parent = EDIT_WINDOW
                  /\ edit_children' = Append(edit_children, n)
             ELSE /\ NewNode.parent = selected_widget
                  /\ edit_children' = edit_children
                  /\ IF Selected.kind = "Container"
                     THEN tree'[selected_widget].children =
                              Append(Selected.children, n)
                     ELSE tree'[selected_widget].content = n
          /\ widgets' = Append(widgets, n)
          /\ combo_items' = widgets'
          /\ selected_widget' = n
          /\ Len(markers') = 4
          /\ HandlesBracketSelectionAfter
          /\ \A i \in 1..Len(tree) :
                /\ tree'[i].parent = tree[i].parent
                /\ tree'[i].x = tree[i].x /\ tree'[i].y = tree[i].y
                /\ tree'[i].width = tree[i].width
                /\ tree'[i].height = tree[i].height]_vars


\* the step is a run of open_gui; the load has failed
OpenStep == last'.op = "open_gui" /\ events' = events + 1
FailedOpenStep == OpenStep /\ last'.r = 0

(***************************************************************************)
(* C17: a failed file open (file missing, malformed markup, schema         *)
(* violation) reports a message and leaves the loaded state untouched: the *)
(* children of the edit window, the tree, the widget list, the selection,  *)
(* the handle set and the recorded filename are unchanged.                 *)
(***************************************************************************)
C17_FailedOpenChangesNothing ==
    [][FailedOpenStep =>
          /\ \E f \in Files :
                /\ LoadError(f) # "none"
                /\ errors' = Append(errors, ErrorMessage(f))
          /\ raised' = "none"
          /\ UNCHANGED <<tree, edit_children, widgets, combo_items,
                         combo_selected, selected_widget, markers,
                         markers_attached, property_window, filename>>]_vars

\* a.xml is loaded and one of its widgets selected; an open has then failed
\* with a message and the loaded tree and the handles are still there
C17_Witness ==
    /\ last = Did("open_gui", 0, 0, 0, 0)
    /\ filename = "a.xml" /\ Len(edit_children) = 1
    /\ selected_widget # NONE /\ Len(markers) = 4 /\ markers_attached
    /\ errors # <<>>
    /\ raised = "none"


\* the step is a run of cb_property_changed whose text did not parse
FailedParseStep ==
    /\ last'.op = "cb_property_changed" /\ events' = events + 1
    /\ last'.r = 0

\* the rows update_property_window shows for widget w: one per attribute of
\* its schema, in declared order, with the widget's current values
RowsOf(w) ==
    [i \in 1..Len(ATTRIBUTES(tree[w].kind)) |->
        LET attr == ATTRIBUTES(tree[w].kind)[i]
        IN PropertyItem(attr, GetAttr(St, w, attr.name), w)]

(***************************************************************************)
(* C18: a property text that fails to parse never changes the widget.  On  *)
(* a live (keystroke) attempt the attribute values are unchanged, the      *)
(* editor keeps the typed text, the rest of the panel is as it was and     *)
(* nothing is reported; on a final commit the attribute values are         *)
(* unchanged and the panel is redrawn from the widget's current values.    *)
(***************************************************************************)
C18_FailedParseKeepsValue ==
    [][FailedParseStep =>
          /\ tree' = tree
          /\ selected_widget' = selected_widget
          /\ errors' = errors /\ raised' = "none"
          /\ last'.b = 0 =>
                /\ property_window' =
                      [property_window EXCEPT
                          ![last'.a].text = TextList[last'.c]]
                /\ markers' = markers
          /\ last'.b = 1 => property_window' = RowsOf(selected_widget)]_vars

\* a final commit of a malformed text: the position editor shows the
\* position of the selected widget again
C18_Witness ==
    /\ last = Did("cb_property_changed", 2, 1, 2, 0)
    /\ property_window[2].name = "position"
    /\ selected_widget # NONE
    /\ property_window = RowsOf(selected_widget)
    /\ raised = "none"

(***************************************************************************)
(* C19: whenever a handler has completed, the property panel is empty if   *)
(* the selection is none and otherwise holds one editor row per attribute  *)
(* of the selected node, in the schema's declared order, built from that   *)
(* node: a property edit is written to the node the panel shows.           *)
(***************************************************************************)
C19_PanelShowsSelection ==
    raised = "none" =>
        IF selected_widget = NONE THEN property_window = <<>>
        ELSE /\ Len(property_window) = Len(ATTRIBUTES(Selected.kind))
             /\ \A i \in 1..Len(property_window) :
                   /\ property_window[i].name = ATTRIBUTES(Selected.kind)[i].name
                   /\ property_window[i].type = ATTRIBUTES(Selected.kind)[i].type
                   /\ property_window[i].of = selected_widget

\* the selection has gone from one widget to its parent and the panel shows
\* the parent
C19_Witness ==
    /\ last.op = "keyPressed" /\ last.r # NONE
    /\ selected_widget # NONE /\ selected_widget # last.r
    /\ property_window = RowsOf(selected_widget)
    /\ raised = "none"

\* the tree installed in the edit window, flattened in pre-order
RECURSIVE Flatten(_, _)
Flatten(kids, i) ==
    IF i > Len(kids) THEN <<>>
    ELSE <<kids[i]>> \o Flatten(Below(St, kids[i]), 1) \o Flatten(kids, i + 1)

(***************************************************************************)
(* C20: the selector list's entry sequence equals the pre-order flattening *)
(* (node before its children, children in child order) of the widget tree  *)
(* installed in the edit window: every node of the tree once, no node that *)
(* is no longer in the tree.                                               *)
(***************************************************************************)
C20_ListIsPreOrderOfTree ==
    raised = "none" =>
        /\ combo_items = Flatten(edit_children, 1)
        /\ widgets = combo_items


(***************************************************************************)
(* C21: selection and selector list stay in sync: whenever a handler has   *)
(* completed with a node selected, the list's highlighted index is the     *)
(* position of the selected node's entry, and it is 'no entry' (-1) with   *)
(* selection none; picking entry i makes the node of entry i the           *)
(* selection.                                                              *)
(***************************************************************************)
C21_ListIndexFollowsSelection ==
    /\ (raised = "none" /\ selected_widget = NONE) => combo_selected = -1
    /\ (raised = "none" /\ selected_widget # NONE) =>
          /\ combo_selected >= 0 /\ combo_selected < Len(combo_items)
          /\ combo_items[combo_selected + 1] = selected_widget
    /\ (raised = "none" /\ last.op = "cb_combo_item_selected") =>
          /\ combo_selected = last.a
          /\ selected_widget = combo_items[last.a + 1]


\* the handler of the step went through a selection change: it updated the
\* index of the drop-down or rebuilt the handle set
SelectionChangeStep ==
    \E i \in 1..Len(steps') : steps'[i] \in {"index", "handles"}

IsPrefix(a, b) ==
    /\ Len(a) <= Len(b)
    /\ \A i \in 1..Len(a) : a[i] = b[i]

(***************************************************************************)
(* C22 as stated: every accepted selection change performs its three       *)
(* follow-up steps in this order: the handle set is rebuilt, then the      *)
(* property panel is rebuilt, then the selector-list index is updated.     *)
(***************************************************************************)
C22_HandlesPanelIndex ==
    [][SelectionChangeStep => steps' = <<"handles", "panel", "index">>]_vars

(***************************************************************************)
(* C22 amended: every accepted selection change performs its follow-up     *)
(* steps in this order: the selector-list index is updated, then the       *)
(* handle set is rebuilt, then the property panel is rebuilt.  A change    *)
(* that completes performs all three; one that an exception stops has      *)
(* performed the first steps of this sequence.                             *)
(***************************************************************************)
C22_IndexHandlesPanel ==
    [][SelectionChangeStep =>
          /\ IsPrefix(steps', <<"index", "handles", "panel">>)
          /\ raised' = "none" => steps' = <<"index", "handles", "panel">>]_vars

\* a press has selected a widget: index, handles, panel, in this order
C22_Witness ==
    /\ last.op = "cb_on_widget_selected" /\ IsNode(last.r)
    /\ selected_widget = last.r
    /\ steps = <<"index", "handles", "panel">>
    /\ raised = "none"

\* the last event was a handle drag whose delta was accepted, or a body
\* drag that moved the selected widget
AfterResize ==
    /\ raised = "none" /\ last.op = "cb_on_marker_dragged" /\ last.r = 1
AfterMove ==
    /\ raised = "none" /\ last.op = "cb_on_edit_window_dragged"
    /\ selected_widget # NONE /\ ~marker_dragged

(***************************************************************************)
(* C24: position_markers is idempotent.  In every state that follows a     *)
(* successful resize or move, two calls in a row leave the same four       *)
(* handle positions as one call, and a call changes nothing but the handle *)
(* positions; with no selection a call changes nothing at all              *)
(***************************************************************************)
C24_RepositionIdempotent ==
    LET once == position_markers(St)
        twice == position_markers(once)
    IN /\ selected_widget = NONE => once = St
       /\ (AfterResize \/ AfterMove) =>
             /\ Len(once.markers) = 4
             /\ twice.markers = once.markers
             /\ [once EXCEPT !.markers = markers] = St

\* BR of a 50 x 50 widget was dragged by (10, 50) and the delta was
\* accepted: one call and two calls both put the handles around 60 x 100
C24_Witness ==
    /\ AfterResize /\ last.a = 3 /\ last.b = 10 /\ last.c = 50
    /\ Selected.width = 60 /\ Selected.height = 100
    /\ position_markers(St).markers[3] =
          [x |-> get_pos_in_scrollarea(St, selected_widget).x + 55,
           y |-> get_pos_in_scrollarea(St, selected_widget).y + 95]
    /\ position_markers(position_markers(St)).markers =
          position_markers(St).markers

(***************************************************************************)
(* The edit container (gui/editcontainer.py) as a function: a              *)
(* specification that puts an EditContainer with some children under a     *)
(* parent on the widget heap and then resizes it to its content.           *)
(***************************************************************************)
Max(a, b) == IF a > b THEN a ELSE b

\* get_most_bottom_right_position: the loop over self.children, from child
\* i on, with the maxima found so far
RECURSIVE most_bottom_right(_, _, _, _, _)
most_bottom_right(s, kids, i, right_pos, bottom_pos) ==
    IF i > Len(kids) THEN <<right_pos + 10, bottom_pos + 10>>
    ELSE LET child == s.tree[kids[i]]
             child_right_pos == child.x + child.width
             child_bottom_pos == child.y + child.height
         IN most_bottom_right(s, kids, i + 1, Max(right_pos, child_right_pos),
                              Max(bottom_pos, child_bottom_pos))

get_most_bottom_right_position(s, w) ==
    most_bottom_right(s, s.tree[w].children, 1, 0, 0)

\* resize_to_content: both lower bounds are read from parent.width
resize_to_content(s, w) ==
    LET size == get_most_bottom_right_position(s, w)
        parent == s.tree[s.tree[w].parent]
    IN [s EXCEPT !.tree[w].width = Max(size[1], parent.width),
                 !.tree[w].height = Max(size[2], parent.width)]

\* the heap positions of the parent and of the edit container
FitParent == 1
FitContainer == 2

\* sides of the parent, and the rectangles (x, y, width, height) the
\* children are drawn from
ParentSides == {40, 80, 120}
ChildRects == {<<0, 0, 20, 20>>, <<30, 10, 60, 20>>, <<10, 50, 20, 90>>,
               <<-40, -40, 20, 20>>}
MaxChildren == 2

ChildLists ==
    UNION {[1..n -> ChildRects] : n \in 0..MaxChildren}

\* a parent of pw x ph with an edit container of 10 x 10 that holds kids
FitHeap(pw, ph, kids) ==
    << [NewWidget("Container", 0, 0, pw, ph)
           EXCEPT !.children = <<FitContainer>>],
       [NewWidget("Container", 0, 0, 10, 10)
           EXCEPT !.parent = FitParent,
                  !.children = [i \in 1..Len(kids) |-> FitContainer + i]] >>
    \o [i \in 1..Len(kids) |->
           [NewWidget("Label", kids[i][1], kids[i][2], kids[i][3], kids[i][4])
               EXCEPT !.parent = FitContainer]]

InitFit ==
    /\ \E pw \in ParentSides, ph \in ParentSides, kids \in ChildLists :
          Holds([InitialState EXCEPT !.tree = FitHeap(pw, ph, kids)])
    /\ mouse = NoButton
    /\ pending = NoEvent
    /\ events = 0
    /\ edits = 0
    /\ last = Did("init", 0, 0, 0, 0)

ResizeToContent ==
    /\ last.op = "init"
    /\ Commit(resize_to_content(St, FitContainer))
    /\ last' = Did("resize_to_content", FitContainer, 0, 0, 0)
    /\ UNCHANGED <<mouse, pending, events>>
    /\ UNCHANGED edits

NextFit == ResizeToContent

SpecFit == InitFit /\ [][NextFit]_vars

(***************************************************************************)
(* C25: resize_to_content resizes the container to fit its contents but    *)
(* not smaller than its parent: afterwards width >= parent.width and       *)
(* height >= parent.height, and for every child                            *)
(* width >= child.x + child.width + 10 and                                 *)
(* height >= child.y + child.height + 10                                   *)
(***************************************************************************)
C25_FitsContentAndParent ==
    last.op = "resize_to_content" =>
        LET c == tree[FitContainer]
            parent == tree[c.parent]
        IN /\ c.width >= parent.width
           /\ c.height >= parent.height
           /\ \A i \in 1..Len(c.children) :
                 LET child == tree[c.children[i]]
                 IN /\ c.width >= child.x + child.width + 10
                    /\ c.height >= child.y + child.height + 10

\* what the code guarantees: the content is covered, and both sides are at
\* least the parent's width
C25_FitsContentAndParentWidth ==
    last.op = "resize_to_content" =>
        LET c == tree[FitContainer]
            parent == tree[c.parent]
        IN /\ c.width >= parent.width
           /\ c.height >= parent.width
           /\ \A i \in 1..Len(c.children) :
                 LET child == tree[c.children[i]]
                 IN /\ c.width >= child.x + child.width + 10
                    /\ c.height >= child.y + child.height + 10

\* the corners of a widget record, by the marker that sits on them
CornerOf(w, m) ==
    CASE m = 1 -> <<w.x, w.y>>
      [] m = 2 -> <<w.x + w.width, w.y>>
      [] m = 3 -> <<w.x + w.width, w.y + w.height>>
      [] m = 4 -> <<w.x, w.y + w.height>>

\* the marker diagonally opposite marker m
OppositeOf(m) == ((m + 1) % 4) + 1

\* the step is a run of cb_on_marker_dragged that accepted its delta
AcceptedResizeStep ==
    /\ MarkerDragStep /\ last'.op = "cb_on_marker_dragged" /\ last'.r = 1

(* height > 0, after any interleaving of selections, body drags, handle    *)
(* resizes and palette insertions every node of the tree, each newly       *)
(* inserted widget included, has width > 0 and height > 0                  *)
(***************************************************************************)
C27_SizesStayPositive ==
    \A n \in 1..Len(tree) : tree[n].width > 0 /\ tree[n].height > 0

\* the step is a run of keyPressed for Ctrl+Up
KeyStep == last'.op = "keyPressed" /\ events' = events + 1

(***************************************************************************)
(* C28: Ctrl+Up moves the selection one level up the tree but never onto   *)
(* the edit window.  With a selected node whose parent is not the edit     *)
(* window the parent becomes the selection, with the handles rebuilt       *)
(* around it and the panel rebuilt from it; with no selection, or with a   *)
(* selected node that is a direct child of the edit window, the selection  *)
(* and the handles are unchanged                                           *)
(***************************************************************************)
C28_CtrlUpSelectsParent ==
    [][KeyStep =>
          IF selected_widget # NONE /\ Selected.parent # EDIT_WINDOW
          THEN /\ raised' = "none"
               /\ IsNode(Selected.parent)
               /\ selected_widget' = Selected.parent
               /\ HandlesBracketSelectionAfter
               /\ (property_window = RowsOf(selected_widget))'
          ELSE /\ selected_widget' = selected_widget
               /\ markers' = markers
               /\ markers_attached' = markers_attached]_vars

\* Ctrl+Up took the selection from the first label of a.xml to the
\* container that holds it
C28_Witness ==
    /\ raised = "none" /\ last = Did("keyPressed", 0, 0, 0, 2)
    /\ filename = "a.xml" /\ Len(tree) = 3 /\ tree[2].parent = 1
    /\ selected_widget = 1 /\ tree[1].parent = EDIT_WINDOW
    /\ Len(markers) = 4 /\ markers_attached
    /\ markers[1] = [x |-> 95, y |-> 95]
    /\ property_window = RowsOf(1)

(***************************************************************************)
(* Property edits as a function: a specification that builds an editor     *)
(* state by an insertion, a file open, a press and a second insertion, and *)
(* then makes one edit in the property panel, with every text of TextList  *)
(* on every row.                                                           *)
(***************************************************************************)
\* the press points of the panel states: (135, 135) lies on the slider of
\* a.xml alone
PanelPoints == Points \cup {<<135, 135>>}

\* the editor after: insert tool `first`; open `file`; press at p; insert
\* `tool` (each step left out when its input is "none" / NoPoint)
PanelBuilt(first, file, p, tool) ==
    LET s1 == IF first = "none" THEN InitialState
              ELSE tool_clicked(InitialState, first)
        s2 == IF file = "none" \/ ~Ok(s1) THEN s1
              ELSE open_gui(Entered(s1), file)
        s3 == IF p = NoPoint \/ ~Ok(s2) THEN s2
              ELSE cb_on_widget_selected(Entered(s2), p[1], p[2])
        s4 == IF tool = "none" \/ ~Ok(s3) THEN s3
              ELSE tool_clicked(Entered(s3), tool)
    IN s4

\* the editor states the panel edits start from
PanelStates ==
    {PanelBuilt(first, file, p, tool) :
        first \in Tools \cup {"none"}, file \in {"a.xml", "b.xml", "none"},
        p \in PanelPoints \cup {NoPoint}, tool \in Tools \cup {"none"}}

InitPanel ==
    /\ \E s \in PanelStates :
         /\ Len(s.tree) <= MaxNodes
         /\ Ok(s)
         /\ Holds(s)
    /\ mouse = NoButton
    /\ pending = NoEvent
    /\ events = 0
    /\ edits = 0
    /\ last = Did("init", 0, 0, 0, 0)

PanelEdit ==
    /\ last.op = "init"
    /\ \E i \in 1..Len(property_window) :
         IF property_window[i].type = "BoolAttr"
         THEN /\ Commit(cb_property_changed(St, i, ~property_window[i].marked,
                                            FALSE))
              /\ last' = Did("cb_property_changed", i, 0, 0, 1)
         ELSE \E k \in 1..Len(TextList), error \in BOOLEAN :
                 /\ Commit(cb_property_changed(St, i, TextList[k], error))
                 /\ last' = Did("cb_property_changed", i,
                                IF error THEN 1 ELSE 0, k,
                                IF Parses(property_window[i].type, TextList[k])
                                THEN 1 ELSE 0)
    /\ events' = events + 1
    /\ edits' = edits + 1
    /\ UNCHANGED <<mouse, pending>>

NextPanel == PanelEdit

SpecPanel == InitPanel /\ [][NextPanel]_vars

====
